---- MODULE Spec2Model ----
(***************************************************************************)
(* Model of the A/B-testing Worker and its Counter Durable Object          *)
(* (src/src/index.mjs).                                                    *)
(*                                                                         *)
(* Counter side: each Counter object has an in-memory `this.value`, a      *)
(* durable storage slot "value", and a queue of storage.put calls whose    *)
(* promises have not settled yet.  The storage settles the puts of one     *)
(* object in the order they were issued.  A Counter.fetch call runs its    *)
(* synchronous part (up to the `await`) in one step and resumes when its   *)
(* put settles; other calls may run in between, as the comment at lines    *)
(* 182-186 says.                                                           *)
(*                                                                         *)
(* Worker side: handleRequest runs up to its first `await` in one step and *)
(* resumes when the awaited promise settles.                               *)
(***************************************************************************)
EXTENDS Integers, Sequences, FiniteSets, TLC

\* Number of Worker requests.
MaxReq == 2
\* Number of direct Counter.fetch calls.
MaxCalls == 2
\* Number of times a Counter object may be restarted.
MaxRestarts == 1

Slots == 1..(IF MaxCalls > MaxReq THEN MaxCalls ELSE MaxReq)

(***************************************************************************)
(* Constants of the Worker.                                                *)
(***************************************************************************)
BASE_PATH == "/abtest"
CONTROL_PATH == BASE_PATH \o "/control"
VARIANT_PATH == BASE_PATH \o "/variant"
ACTION_PATH == BASE_PATH \o "/action"
RESULT_PATH == BASE_PATH \o "/result"

COUNTER_CONTROL_SHOW == "control-show"
\* (COUNTER_CONTROL_ACTION_Show: the control action counted on the show counter)
COUNTER_CONTROL_ACTION_Show == "control-show"
COUNTER_CONTROL_ACTION == "control-action"
COUNTER_VARIANT_SHOW == "variant-show"
\* (the name of line 16 pasted into line 18)
COUNTER_VARIANT_ACTION_Dup == "control-action"
COUNTER_VARIANT_ACTION == "variant-action"

CounterNames ==
    {COUNTER_CONTROL_SHOW, COUNTER_CONTROL_ACTION, COUNTER_VARIANT_SHOW, COUNTER_VARIANT_ACTION}

\* env.COUNTER.idFromName(key) / env.COUNTER.get(id): the platform derives the
\* object id from the name alone; the four names used get ids 1..4.
idFromName(name) ==
    CASE name = "control-show" -> 1
      [] name = "control-action" -> 2
      [] name = "variant-show" -> 3
      [] name = "variant-action" -> 4

ObjIds == 1..4

\* new URL(request.url).pathname for obj.fetch(u) with u a bare operation name.
UrlPathname(u) == "/" \o u

\* Operation names a caller of Counter.fetch may pass; the Worker itself only
\* passes "increment" and "value".
Ops == {"increment", "decrement", "value", "reset"}

VARIABLES
    value,    \* value[i]: this.value of Counter object i, <<>> while not loaded
    stored,   \* stored[i]: the durable slot "value" of object i, <<>> when absent
    obj,      \* obj[i]: "none" (no instance), "init" (constructor's load pending), "ready"
    writes,   \* writes[i]: storage.put calls of object i not yet settled, oldest first
    gen,      \* gen[i]: number of instances of object i constructed so far (history)
    loaded,   \* loaded[i]: the value the current instance's constructor loaded (history)
    calls,    \* calls[c]: the Counter.fetch call of slot c
    req,      \* req[r]: the Worker request of slot r
    jar       \* jar[v]: the cookies visitor v holds

vars == <<value, stored, obj, writes, gen, loaded, calls, req, jar>>

\* A call: the counter name and operation passed, its state, the local
\* currentValue (cur), the response body (ret), and as history the instance
\* that served it (gen) and this.value at the time it returned (seen).
NoCall ==
    [name |-> "", op |-> "", st |-> "none", cur |-> 0, ret |-> "", seen |-> 0, gen |-> 0]

NewCall(name, op) == [NoCall EXCEPT !.name = name, !.op = op, !.st = "sent"]

(***************************************************************************)
(* Counter (lines 150-189).                                                *)
(***************************************************************************)

\* `stored || 0` (StoredOrZeroNever: the stored value ignored)
StoredOrZeroNever(s) == 0
StoredOrZero(s) == IF s = <<>> \/ s[1] = 0 THEN 0 ELSE s[1]

\* `++this.value` as an expression (PreIncrementNoop: `+this.value`)
PreIncrementNoop(v) == v
PreIncrement(v) == v + 1

\* `--this.value` as an expression
PreDecrement(v) == v - 1

\* new Response(currentValue): the body is the text of the number
ResponseBody(v) == ToString(v)

\* `return new Response(currentValue)`: the local captured before the await
\* (ReturnedValueLive: `new Response(this.value)`)
ReturnedValueLive(c) == value[idFromName(calls[c].name)][1]
ReturnedValue(c) == calls[c].cur

\* The object is instantiated when a request for it arrives and no instance
\* exists: the constructor runs and blockConcurrencyWhile starts the load.
Instantiate(i) ==
    /\ obj[i] = "none"
    /\ \E c \in Slots : calls[c].st = "sent" /\ idFromName(calls[c].name) = i
    /\ obj' = [obj EXCEPT ![i] = "init"]
    /\ gen' = [gen EXCEPT ![i] = @ + 1]
    /\ UNCHANGED <<value, stored, writes, loaded, calls, req, jar>>

\* The callback of blockConcurrencyWhile completes (lines 156-157).
Load(i) ==
    /\ obj[i] = "init"
    /\ obj' = [obj EXCEPT ![i] = "ready"]
    /\ value' = [value EXCEPT ![i] = <<StoredOrZero(stored[i])>>]
    /\ loaded' = [loaded EXCEPT ![i] = StoredOrZero(stored[i])]
    /\ UNCHANGED <<stored, writes, gen, calls, req, jar>>

\* Instantiate and Load in one step: blockConcurrencyWhile lets no request
\* of the object run in between.
Activate(i) ==
    /\ obj[i] = "none"
    /\ \E c \in Slots : calls[c].st = "sent" /\ idFromName(calls[c].name) = i
    /\ obj' = [obj EXCEPT ![i] = "ready"]
    /\ gen' = [gen EXCEPT ![i] = @ + 1]
    /\ value' = [value EXCEPT ![i] = <<StoredOrZero(stored[i])>>]
    /\ loaded' = [loaded EXCEPT ![i] = StoredOrZero(stored[i])]
    /\ UNCHANGED <<stored, writes, calls, req, jar>>

\* blockConcurrencyWhile (lines 153-155): requests are delivered to the
\* object only once the constructor's callback has completed.
\* (InputGateOpenEarly: the load started without blockConcurrencyWhile)
InputGateOpenEarly(i) == obj[i] # "none"
InputGateOpen(i) == obj[i] = "ready"

\* `this.value` as read by fetch.  Before the load it is undefined; no request
\* is delivered then, and the operator is made total with 0.
ThisValue(i) == IF value[i] = <<>> THEN 0 ELSE value[i][1]

\* switch (url.pathname): the case taken (lines 166-179).
\* (SwitchCaseNoDefault: no default label, an unknown path falls out of the
\* switch like "/value")
SwitchCaseNoDefault(path) ==
    IF path \in {"/increment", "/decrement"} THEN path ELSE "/value"
SwitchCase(path) ==
    IF path \in {"/increment", "/decrement", "/value"} THEN path ELSE "default"

\* The argument of storage.put("value", this.value) (lines 169, 173), read
\* after the ++ or --.
\* (PutValueStale: the value from before the ++ or -- is written)
PutValueStale(old, new) == old
PutValue(old, new) == new

\* Counter.fetch up to its await (lines 162-180): delivered only once the
\* object is ready.
Deliver(c) ==
    LET k == calls[c]
        i == idFromName(k.name)
        path == SwitchCase(UrlPathname(k.op))
        mutating == path \in {"/increment", "/decrement"}
    IN  /\ k.st = "sent"
        /\ InputGateOpen(i)
        /\ LET old == ThisValue(i)
               new == IF path = "/increment" THEN PreIncrement(old)
                      ELSE IF path = "/decrement" THEN PreDecrement(old)
                      ELSE old
               cur == IF mutating THEN new ELSE old
           IN  /\ value' = [value EXCEPT ![i] = IF mutating THEN <<new>> ELSE @]
               /\ writes' = [writes EXCEPT ![i] =
                                IF mutating
                                THEN Append(@, [call |-> c, v |-> PutValue(old, new)])
                                ELSE @]
               /\ calls' = [calls EXCEPT ![c] =
                    [@ EXCEPT !.gen = gen[i],
                              !.cur = cur,
                              !.seen = cur,
                              !.st = IF mutating THEN "writing"
                                     ELSE IF path = "/value" THEN "done" ELSE "notfound",
                              !.ret = IF mutating THEN ""
                                      ELSE IF path = "/value" THEN ResponseBody(cur)
                                      ELSE "Not found " \o UrlPathname(k.op)]]
        /\ UNCHANGED <<stored, obj, gen, loaded, req, jar>>

\* The oldest pending storage.put of object i succeeds; its call resumes and
\* returns (lines 169/173, 187).
WriteDone(i) ==
    /\ writes[i] # <<>>
    /\ LET h == Head(writes[i])
       IN  /\ stored' = [stored EXCEPT ![i] = <<h.v>>]
           /\ calls' = [calls EXCEPT ![h.call] =
                [@ EXCEPT !.st = "done",
                          !.ret = ResponseBody(ReturnedValue(h.call)),
                          !.seen = ThisValue(i)]]
    /\ writes' = [writes EXCEPT ![i] = Tail(@)]
    /\ UNCHANGED <<value, obj, gen, loaded, req, jar>>

\* The oldest pending storage.put of object i rejects: the call throws.
WriteFail(i) ==
    /\ writes[i] # <<>>
    /\ calls' = [calls EXCEPT ![Head(writes[i]).call].st = "failed"]
    /\ writes' = [writes EXCEPT ![i] = Tail(@)]
    /\ UNCHANGED <<value, stored, obj, gen, loaded, req, jar>>

\* obj.fetch rejects before the request is delivered (object unreachable, or
\* the caller's pending work was cancelled).
CallFail(c) ==
    /\ calls[c].st = "sent"
    /\ calls' = [calls EXCEPT ![c].st = "failed"]
    /\ UNCHANGED <<value, stored, obj, writes, gen, loaded, req, jar>>

\* The number of instances lost so far.
Lost(i) == IF gen[i] = 0 THEN 0 ELSE IF obj[i] = "none" THEN gen[i] ELSE gen[i] - 1

\* The instance of object i is lost (eviction, crash): memory and unsettled
\* writes go, the durable slot stays.
Restart(i) ==
    /\ obj[i] # "none"
    /\ Lost(1) + Lost(2) + Lost(3) + Lost(4) < MaxRestarts
    /\ obj' = [obj EXCEPT ![i] = "none"]
    /\ value' = [value EXCEPT ![i] = <<>>]
    /\ writes' = [writes EXCEPT ![i] = <<>>]
    /\ calls' = [c \in Slots |->
                    IF calls[c].st = "writing" /\ idFromName(calls[c].name) = i
                    THEN [calls[c] EXCEPT !.st = "failed"]
                    ELSE calls[c]]
    /\ UNCHANGED <<stored, gen, loaded, req, jar>>

\* A client of the Counter calls obj.fetch(op) directly.
DirectCall(c, name, op) ==
    /\ c <= MaxCalls
    /\ calls[c].st = "none"
    /\ \A d \in Slots : d < c => calls[d].st # "none"
    /\ calls' = [calls EXCEPT ![c] = NewCall(name, op)]
    /\ UNCHANGED <<value, stored, obj, writes, gen, loaded, req, jar>>

(***************************************************************************)
(* Cookies (lines 115-145).  A Cookie header is absent or carries a set of *)
(* name=value pairs; `includes` looks for one of them.                     *)
(***************************************************************************)
COOKIE_NAME == "cloudflare_ab_test"
ControlCookie == COOKIE_NAME \o "=control"
VariantCookie == COOKIE_NAME \o "=variant"
CountedCookie == "cloudflare_ab_test_counted=true"

\* A cookie of the same site that is not one of the Worker's.
OtherCookie == "theme=dark"

NoHeader == [present |-> FALSE, pairs |-> {}]

\* request.headers.get("cookie") of a request sent by a browser holding `j`
CookieHeader(j) == IF j = {} THEN NoHeader ELSE [present |-> TRUE, pairs |-> j]

\* (hasControlCookieNever: the control cookie never recognised)
hasControlCookieNever(cookie) == FALSE
hasControlCookie(cookie) == cookie.present /\ ControlCookie \in cookie.pairs

\* (hasVariantCookieAny: any Cookie header taken for the variant cookie)
hasVariantCookieAny(cookie) == cookie.present
hasVariantCookie(cookie) == cookie.present /\ VariantCookie \in cookie.pairs

\* (actionNotCountedCookieAlways: the dedup cookie not looked at)
actionNotCountedCookieAlways(cookie) == cookie.present
actionNotCountedCookie(cookie) == cookie.present /\ CountedCookie \notin cookie.pairs

\* The browser stores `${COOKIE_NAME}=${value}; path=/`: one value per name.
StoreAbTestCookie(j, group) ==
    IF group = "" THEN j
    ELSE (j \ {ControlCookie, VariantCookie}) \cup {COOKIE_NAME \o "=" \o group}

StoreCountedCookie(j, counted) == IF counted THEN j \cup {CountedCookie} ELSE j

(***************************************************************************)
(* Worker: handleRequest (lines 20-112).                                   *)
(***************************************************************************)
NoReq ==
    [pc |-> "idle", visitor |-> "", path |-> "", cookie |-> NoHeader, group |-> "",
     fwd |-> "", status |-> "", setGroup |-> "", setCounted |-> FALSE, data |-> <<>>]

Visitors == {"v1"}

NewReq(v, p) ==
    [NoReq EXCEPT !.visitor = v, !.path = p, !.cookie = CookieHeader(jar[v])]

Free(r) ==
    /\ r <= MaxReq
    /\ req[r].pc = "idle"
    /\ calls[r].st = "none"
    /\ \A q \in Slots : q < r => req[q].pc # "idle"

\* `fetch(request)`: the origin gets the URL of the incoming request.
FetchRequestPath(q) == q.path

\* The path the control branch forwards to (lines 32-33: url.pathname is set,
\* `request` is fetched).
ControlForward(q) == FetchRequestPath(q)

\* The path the variant branch forwards to (lines 35-36: `fetch(url, request)`).
VariantForward(q) == VARIANT_PATH

\* The show counter of a newly assigned group (lines 41-47).
\* (ShowCounterSwapped: the two branches exchanged)
ShowCounterSwapped(group) ==
    IF group = "variant" THEN COUNTER_CONTROL_SHOW ELSE COUNTER_VARIANT_SHOW
ShowCounter(group) ==
    IF group = "variant" THEN COUNTER_VARIANT_SHOW ELSE COUNTER_CONTROL_SHOW

GroupPath(group) == IF group = "variant" THEN VARIANT_PATH ELSE CONTROL_PATH

\* case BASE_PATH, up to `await fetch(...)` (lines 30-48).  For a new visitor
\* incrementCounter is started and not awaited.
RequestBase(r, v, rnd) ==
    /\ Free(r)
    /\ LET q == NewReq(v, BASE_PATH)
       IN  IF hasControlCookie(q.cookie)
           THEN /\ req' = [req EXCEPT ![r] = [q EXCEPT !.pc = "origin", !.fwd = ControlForward(q)]]
                /\ UNCHANGED calls
           ELSE IF hasVariantCookie(q.cookie)
           THEN /\ req' = [req EXCEPT ![r] = [q EXCEPT !.pc = "origin", !.fwd = VariantForward(q)]]
                /\ UNCHANGED calls
           ELSE /\ req' = [req EXCEPT ![r] =
                        [q EXCEPT !.pc = "origin", !.group = rnd, !.fwd = GroupPath(rnd)]]
                /\ calls' = [calls EXCEPT ![r] = NewCall(ShowCounter(rnd), "increment")]
    /\ UNCHANGED <<value, stored, obj, writes, gen, loaded, jar>>

\* case ACTION_PATH, up to `await incrementCounter(...)` or to the return
\* (lines 56-68).
RequestAction(r, v) ==
    /\ Free(r)
    /\ LET q == NewReq(v, ACTION_PATH)
       IN  IF hasControlCookie(q.cookie) /\ actionNotCountedCookie(q.cookie)
           THEN /\ req' = [req EXCEPT ![r] = [q EXCEPT !.pc = "action"]]
                /\ calls' = [calls EXCEPT ![r] = NewCall(COUNTER_CONTROL_ACTION, "increment")]
           ELSE IF hasVariantCookie(q.cookie) /\ actionNotCountedCookie(q.cookie)
           THEN /\ req' = [req EXCEPT ![r] = [q EXCEPT !.pc = "action"]]
                /\ calls' = [calls EXCEPT ![r] = NewCall(COUNTER_VARIANT_ACTION, "increment")]
           ELSE /\ req' = [req EXCEPT ![r] = [q EXCEPT !.pc = "done", !.status = "redirect"]]
                /\ UNCHANGED calls
    /\ UNCHANGED <<value, stored, obj, writes, gen, loaded, jar>>

\* The order in which case RESULT_PATH reads the counters (lines 73-76).
ResultOrder ==
    <<COUNTER_CONTROL_SHOW, COUNTER_CONTROL_ACTION, COUNTER_VARIANT_SHOW, COUNTER_VARIANT_ACTION>>

\* case RESULT_PATH, up to the first `await getCounterValue(...)` (line 73).
RequestResult(r, v) ==
    /\ Free(r)
    /\ req' = [req EXCEPT ![r] = [NewReq(v, RESULT_PATH) EXCEPT !.pc = "result"]]
    /\ calls' = [calls EXCEPT ![r] = NewCall(ResultOrder[1], "value")]
    /\ UNCHANGED <<value, stored, obj, writes, gen, loaded, jar>>

\* default: `fetch(request)` (line 94).
RequestOther(r, v, p) ==
    /\ Free(r)
    /\ LET q == NewReq(v, p)
       IN  req' = [req EXCEPT ![r] = [q EXCEPT !.pc = "origin", !.fwd = FetchRequestPath(q)]]
    /\ UNCHANGED <<value, stored, obj, writes, gen, loaded, calls, jar>>

\* The origin answers; a new visitor's response gets the assignment cookie
\* (lines 33, 36, 48-49, 94) and the browser stores it.
OriginReturn(r) ==
    /\ req[r].pc = "origin"
    /\ req' = [req EXCEPT ![r] =
                [@ EXCEPT !.pc = "done", !.status = "page", !.setGroup = req[r].group]]
    /\ jar' = [jar EXCEPT ![req[r].visitor] = StoreAbTestCookie(@, req[r].group)]
    /\ UNCHANGED <<value, stored, obj, writes, gen, loaded, calls>>

\* `await incrementCounter(...)` settles in case ACTION_PATH (lines 60-61,
\* 64-65, 68): on success the dedup cookie is set, a rejection propagates out
\* of handleRequest.
ActionResume(r) ==
    /\ req[r].pc = "action"
    /\ calls[r].st \in {"done", "failed"}
    /\ LET ok == calls[r].st = "done"
       IN  /\ req' = [req EXCEPT ![r] =
                        [@ EXCEPT !.pc = "done",
                                  !.status = IF ok THEN "redirect" ELSE "error",
                                  !.setCounted = ok]]
           /\ jar' = [jar EXCEPT ![req[r].visitor] = StoreCountedCookie(@, ok)]
    /\ UNCHANGED <<value, stored, obj, writes, gen, loaded, calls>>

\* `await resp.text()` of getCounterValue: a JavaScript string.
JsString(s) == [type |-> "string", s |-> s]
ResponseText(body) == JsString(body)

\* One `await getCounterValue(...)` settles in case RESULT_PATH (lines 73-89):
\* the next counter is read, or the response is built from the four texts.
ResultResume(r) ==
    /\ req[r].pc = "result"
    /\ calls[r].st \in {"done", "failed"}
    /\ LET data == Append(req[r].data, ResponseText(calls[r].ret))
       IN  IF calls[r].st = "failed"
           THEN /\ req' = [req EXCEPT ![r] = [@ EXCEPT !.pc = "done", !.status = "error"]]
                /\ calls' = [calls EXCEPT ![r] = NoCall]
           ELSE IF Len(data) < Len(ResultOrder)
           THEN /\ req' = [req EXCEPT ![r] = [@ EXCEPT !.data = data]]
                /\ calls' = [calls EXCEPT ![r] = NewCall(ResultOrder[Len(data) + 1], "value")]
           ELSE /\ req' = [req EXCEPT ![r] =
                        [@ EXCEPT !.pc = "done", !.status = "json", !.data = data]]
                /\ calls' = [calls EXCEPT ![r] = NoCall]
    /\ UNCHANGED <<value, stored, obj, writes, gen, loaded, jar>>

(***************************************************************************)
(* Initial states: a fresh deployment, or one whose counters were          *)
(* persisted by an earlier run; the visitor is new, or was assigned to a   *)
(* group by an earlier response.                                           *)
(***************************************************************************)
FreshStored == [i \in ObjIds |-> <<>>]
PriorStored == <<<<3>>, <<1>>, <<3>>, <<1>>>>

InitIdle ==
    /\ value = [i \in ObjIds |-> <<>>]
    /\ obj = [i \in ObjIds |-> "none"]
    /\ writes = [i \in ObjIds |-> <<>>]
    /\ gen = [i \in ObjIds |-> 0]
    /\ loaded = [i \in ObjIds |-> 0]
    /\ calls = [c \in Slots |-> NoCall]
    /\ req = [r \in Slots |-> NoReq]

Init ==
    /\ InitIdle
    /\ \/ /\ stored \in {FreshStored, PriorStored}
          /\ jar \in [Visitors -> {{}, {ControlCookie}, {VariantCookie}}]
       \/ /\ stored = FreshStored
          /\ jar \in [Visitors -> {{OtherCookie}}]

\* The Counter alone, driven by a direct client: nothing of the Worker runs.
\* Some counters were persisted before, others never.
InitCounter ==
    /\ InitIdle
    /\ stored = [i \in ObjIds |-> IF i <= 2 THEN <<>> ELSE PriorStored[i]]
    /\ jar = [v \in Visitors |-> {}]

\* The counters the direct client addresses.
DirectNames == {COUNTER_CONTROL_SHOW, COUNTER_VARIANT_ACTION}

NextCounter ==
    \/ \E c \in Slots, name \in DirectNames, op \in Ops : DirectCall(c, name, op)
    \/ \E i \in ObjIds : Instantiate(i)
    \/ \E i \in ObjIds : Load(i)
    \/ \E c \in Slots : Deliver(c)
    \/ \E i \in ObjIds : WriteDone(i)
    \/ \E i \in ObjIds : WriteFail(i)
    \/ \E i \in ObjIds : Restart(i)

SpecCounter == InitCounter /\ [][NextCounter]_vars

\* Paths that fall to the default case.
OtherPaths == {CONTROL_PATH}

Next ==
    \/ \E r \in Slots, v \in Visitors, rnd \in {"variant", "control"} : RequestBase(r, v, rnd)
    \/ \E r \in Slots, v \in Visitors : RequestAction(r, v)
    \/ \E r \in Slots, v \in Visitors : RequestResult(r, v)
    \/ \E r \in Slots, v \in Visitors, p \in OtherPaths : RequestOther(r, v, p)
    \/ \E r \in Slots : OriginReturn(r)
    \/ \E r \in Slots : ActionResume(r)
    \/ \E r \in Slots : ResultResume(r)
    \/ \E i \in ObjIds : Activate(i)
    \/ \E c \in Slots : Deliver(c)
    \/ \E i \in ObjIds : WriteDone(i)
    \/ \E i \in ObjIds : WriteFail(i)
    \/ \E c \in Slots : CallFail(c)

Spec == Init /\ [][Next]_vars

(***************************************************************************)
(* Properties of the Counter, checked under SpecCounter.                   *)
(***************************************************************************)

\* The calls made so far to Counter object i.
CallsOn(i) == {c \in Slots : calls[c].st # "none" /\ idFromName(calls[c].name) = i}

\* The durable value of object i, absent counted as 0.
Persisted(i) == IF stored[i] = <<>> THEN 0 ELSE stored[i][1]

\* All calls ever made to object i are increments, all were served by its
\* current instance (the one that loaded loaded[i]) and all have returned.
OnlyIncrementsAllDone(i) ==
    /\ CallsOn(i) # {}
    /\ \A c \in CallsOn(i) :
           calls[c].op = "increment" /\ calls[c].st = "done" /\ calls[c].gen = gen[i]

\* C1: when N increment calls, and nothing else, were made to a Counter that
\* loaded V, and all N have returned, the persisted value is V+N and the
\* returned texts are exactly those of V+1, ..., V+N, each returned once.
C1_ConcurrentIncrements ==
    \A i \in ObjIds :
        OnlyIncrementsAllDone(i) =>
            LET n == Cardinality(CallsOn(i))
            IN  /\ stored[i] = <<loaded[i] + n>>
                /\ {calls[c].ret : c \in CallsOn(i)} = {ToString(loaded[i] + k) : k \in 1..n}

\* Two increments of one Counter overlapped (the first returned after the
\* second had changed this.value) and both have returned.
C1_Witness ==
    \E i \in ObjIds :
        /\ OnlyIncrementsAllDone(i)
        /\ Cardinality(CallsOn(i)) >= 2
        /\ \E c \in CallsOn(i) : calls[c].seen # calls[c].cur

\* C2: an increment or decrement call returns the value it computed at its own
\* read-modify step, whatever this.value is when its write settles.
C2_ReturnsOwnValue ==
    \A c \in Slots :
        (calls[c].st = "done" /\ calls[c].op \in {"increment", "decrement"}) =>
            calls[c].ret = ToString(calls[c].cur)

\* A call returned its own value although this.value had moved on meanwhile.
C2_Witness ==
    \E c \in Slots :
        /\ calls[c].st = "done"
        /\ calls[c].op \in {"increment", "decrement"}
        /\ calls[c].seen # calls[c].cur
        /\ calls[c].ret = ToString(calls[c].cur)

\* The current instance of object i has run an increment or decrement.
Mutated(i) ==
    \E c \in Slots :
        /\ calls[c].name # ""
        /\ idFromName(calls[c].name) = i
        /\ calls[c].gen = gen[i]
        /\ calls[c].op \in {"increment", "decrement"}

\* C3: a loaded Counter instance that has not mutated yet holds the persisted
\* value (0 when nothing was persisted), and value() reports it.
C3_Rehydration ==
    \A i \in ObjIds :
        (obj[i] = "ready" /\ ~Mutated(i)) =>
            /\ value[i] = <<Persisted(i)>>
            /\ \A c \in CallsOn(i) :
                   (calls[c].op = "value" /\ calls[c].st = "done" /\ calls[c].gen = gen[i])
                       => calls[c].ret = ToString(Persisted(i))

\* A second instance, constructed after an earlier instance persisted a
\* nonzero value, has answered value() before any mutation.
C3_Witness ==
    \E i \in ObjIds :
        /\ obj[i] = "ready" /\ gen[i] = 2 /\ ~Mutated(i)
        /\ \E c \in CallsOn(i) :
               calls[c].gen = 1 /\ calls[c].st = "done" /\ calls[c].op \in {"increment", "decrement"}
        /\ Persisted(i) # 0
        /\ \E c \in CallsOn(i) :
               calls[c].op = "value" /\ calls[c].st = "done" /\ calls[c].gen = 2

(***************************************************************************)
(* Properties of the Worker, checked under Spec.                           *)
(***************************************************************************)

\* The group named by the assignment cookie a request carries, "" if none.
CookieGroup(q) ==
    IF ControlCookie \in q.cookie.pairs THEN "control"
    ELSE IF VariantCookie \in q.cookie.pairs THEN "variant"
    ELSE ""

\* The logical counters of a group, by name.
ShowName(group) == IF group = "control" THEN "control-show" ELSE "variant-show"
ActionName(group) == IF group = "control" THEN "control-action" ELSE "variant-action"
PageOf(group) == IF group = "control" THEN "/abtest/control" ELSE "/abtest/variant"

\* The call of slot r has run its read-modify step on some Counter.
Stepped(r) == calls[r].gen > 0

\* C4: of two action requests of an assigned visitor, the second carrying the
\* dedup cookie the first response set, exactly one incremented a counter: the
\* first, the action counter of the visitor's group; the second made no
\* counter call and returned the redirect.
C4_ActionCountedOnce ==
    \A r1, r2 \in Slots :
        ( /\ r1 # r2
          /\ req[r1].path = ACTION_PATH /\ req[r2].path = ACTION_PATH
          /\ req[r1].visitor = req[r2].visitor
          /\ CookieGroup(req[r1]) # ""
          /\ CountedCookie \notin req[r1].cookie.pairs
          /\ req[r1].setCounted
          /\ req[r2].cookie.pairs = req[r1].cookie.pairs \cup {CountedCookie} )
        =>
          /\ calls[r1].name = ActionName(CookieGroup(req[r1]))
          /\ calls[r1].op = "increment" /\ calls[r1].st = "done"
          /\ calls[r2].st = "none"
          /\ req[r2].pc = "done" /\ req[r2].status = "redirect" /\ ~req[r2].setCounted
          /\ Cardinality({r \in {r1, r2} : Stepped(r)}) = 1

\* Both action requests of the visitor have been answered.
C4_Witness ==
    \E r1, r2 \in Slots :
        /\ r1 # r2
        /\ req[r1].path = ACTION_PATH /\ req[r2].path = ACTION_PATH
        /\ CookieGroup(req[r1]) # ""
        /\ CountedCookie \notin req[r1].cookie.pairs
        /\ req[r1].setCounted /\ Stepped(r1)
        /\ req[r2].cookie.pairs = req[r1].cookie.pairs \cup {CountedCookie}
        /\ req[r2].pc = "done"

\* C5: a /abtest request that carries an assignment cookie makes no counter
\* call, chooses no group and sets no cookie.
C5_RepeatVisitNoCount ==
    \A r \in Slots :
        (req[r].path = BASE_PATH /\ CookieGroup(req[r]) # "") =>
            /\ calls[r].st = "none"
            /\ req[r].group = ""
            /\ req[r].setGroup = "" /\ ~req[r].setCounted

\* A visitor assigned by one /abtest response came back with the cookie and
\* was answered.
C5_Witness ==
    \E r1, r2 \in Slots :
        /\ req[r1].path = BASE_PATH /\ req[r1].setGroup # ""
        /\ req[r2].path = BASE_PATH /\ CookieGroup(req[r2]) = req[r1].setGroup
        /\ req[r2].pc = "done"

\* A /abtest request without an assignment cookie.
NewVisitor(r) == req[r].path = BASE_PATH /\ CookieGroup(req[r]) = ""

\* C6 as claimed: a new visitor's /abtest request that was answered, and whose
\* counter call has settled, has incremented the show counter of its group.
C6_ShowCountedOnce ==
    \A r \in Slots :
        (NewVisitor(r) /\ req[r].pc = "done" /\ calls[r].st \notin {"sent", "writing"}) =>
            /\ calls[r].name = ShowName(req[r].group)
            /\ calls[r].op = "increment" /\ calls[r].st = "done"
            /\ req[r].fwd = PageOf(req[r].group)
            /\ req[r].setGroup = req[r].group

C6_State ==
    \A r \in Slots :
        NewVisitor(r) =>
            /\ req[r].group \in {"control", "variant"}
            /\ calls[r].name = ShowName(req[r].group)
            /\ calls[r].op = "increment"
            /\ req[r].fwd = PageOf(req[r].group)
            /\ req[r].pc = "done" =>
                   req[r].status = "page" /\ req[r].setGroup = req[r].group /\ ~req[r].setCounted
            /\ calls[r].st = "done" =>
                   /\ calls[r].ret = ToString(calls[r].cur)
                   /\ Persisted(idFromName(ShowName(req[r].group))) >= calls[r].cur

C6_Step ==
    \A r \in Slots :
        (NewVisitor(r) /\ calls'[r] # calls[r]) =>
            LET i == idFromName(ShowName(req[r].group))
            IN  /\ \A j \in ObjIds \ {i} : value'[j] = value[j] /\ stored'[j] = stored[j]
                /\ (calls[r].st = "sent" /\ calls'[r].st = "writing") =>
                       value'[i] = <<value[i][1] + 1>> /\ calls'[r].cur = value[i][1] + 1
                /\ (calls[r].st = "writing" /\ calls'[r].st = "done") =>
                       stored'[i] = <<calls[r].cur>> /\ value'[i] = value[i]
                /\ calls'[r].st \in {"failed", "sent"} => value' = value /\ stored' = stored

\* C6, amended: a new visitor's /abtest request makes one counter call, an
\* increment of the show counter of the chosen group, serves that group's page
\* and sets that group's cookie; the call adds exactly 1 to that counter and
\* touches no other, and once it has returned the sum is persisted.  The call
\* is not awaited and may fail: then nothing is persisted for the request.
C6_ShowCountedIfCallSucceeds == []C6_State /\ [][C6_Step]_vars

\* A new visitor was answered and its increment has returned.
C6_Witness ==
    \E r \in Slots :
        /\ NewVisitor(r) /\ req[r].pc = "done"
        /\ calls[r].st = "done"
        /\ req[r].setGroup = "variant"

\* C7: a /abtest request of an assigned visitor is forwarded to the page of
\* the group its cookie names.
C7_ServedExistingGroup ==
    \A r \in Slots :
        (req[r].path = BASE_PATH /\ CookieGroup(req[r]) # "") =>
            req[r].fwd = PageOf(CookieGroup(req[r]))

\* C8: a request whose counter increment failed is still answered with its
\* page (first visit) or with the redirect (action).
C8_CountingErrorsInvisible ==
    \A r \in Slots :
        (req[r].pc = "done" /\ calls[r].st = "failed") =>
            /\ req[r].path = BASE_PATH =>
                   req[r].status = "page" /\ req[r].fwd = PageOf(req[r].group)
            /\ req[r].path = ACTION_PATH => req[r].status = "redirect"

JsNumber(n) == [type |-> "number", n |-> n]

ResultNames == <<"control-show", "control-action", "variant-show", "variant-action">>

\* C9: the answer of the result endpoint has the four fields, each a number
\* that the corresponding counter held while the request ran, and the request
\* makes no call that changes a counter.
C9_ResultIntegers ==
    \A r \in Slots :
        req[r].path = RESULT_PATH =>
            /\ calls[r].op \in {"", "value"}
            /\ req[r].status = "json" =>
                   /\ Len(req[r].data) = 4
                   /\ \A k \in 1..4 :
                          LET i == idFromName(ResultNames[k])
                          IN  req[r].data[k] \in {JsNumber(n) : n \in loaded[i]..value[i][1]}

\* The counter a Worker request is meant to address.
Role(r) ==
    IF req[r].path = BASE_PATH THEN ShowName(req[r].group)
    ELSE ActionName(CookieGroup(req[r]))

C10_Distinct ==
    Cardinality({idFromName(n) : n \in CounterNames}) = 4

C10_State ==
    \A r \in Slots :
        (req[r].path \in {BASE_PATH, ACTION_PATH} /\ calls[r].st = "done") =>
            LET i == idFromName(Role(r))
            IN  /\ calls[r].cur > loaded[i]
                /\ value[i] # <<>> /\ value[i][1] >= calls[r].cur
                /\ Persisted(i) >= calls[r].cur

C10_Frame ==
    \A r \in Slots :
        (calls'[r] # calls[r]) =>
            IF req[r].path \in {BASE_PATH, ACTION_PATH}
            THEN \A j \in ObjIds \ {idFromName(Role(r))} :
                     value'[j] = value[j] /\ stored'[j] = stored[j]
            ELSE req[r].path = RESULT_PATH => value' = value /\ stored' = stored

\* C10: the four counter names resolve to four different Counters; the effect
\* of a call made for one logical counter lands in the Counter and slot of
\* that name, and no step of the call changes the in-memory or the persisted
\* value of any other counter.
C10_RegistryNoCollision == []C10_Distinct /\ []C10_State /\ [][C10_Frame]_vars

\* Two requests have incremented two different counters, each by one.
C10_Witness ==
    \E r1, r2 \in Slots :
        /\ calls[r1].st = "done" /\ calls[r2].st = "done"
        /\ calls[r1].op = "increment" /\ calls[r2].op = "increment"
        /\ calls[r1].name # calls[r2].name
        /\ value[idFromName(calls[r1].name)] = <<loaded[idFromName(calls[r1].name)] + 1>>
        /\ value[idFromName(calls[r2].name)] = <<loaded[idFromName(calls[r2].name)] + 1>>

(***************************************************************************)
(* Further properties of the Counter, checked under SpecCounter.           *)
(***************************************************************************)

\* The operation names Counter.fetch recognises.
KnownOps == {"increment", "decrement", "value"}

C11_State ==
    \A c \in Slots :
        (calls[c].st \in {"writing", "done", "notfound"} /\ calls[c].op \notin KnownOps) =>
            /\ calls[c].st = "notfound"
            /\ calls[c].ret = "Not found /" \o calls[c].op

C11_Step ==
    \A c \in Slots :
        (calls[c].op \notin KnownOps /\ calls'[c] # calls[c]) =>
            value' = value /\ stored' = stored /\ writes' = writes

\* C11: a Counter request with an operation name other than increment,
\* decrement and value is answered "Not found" (the 404 response), and no step
\* of it changes the in-memory value, the persisted value or the pending
\* writes.
C11_UnknownOpNotFound == []C11_State /\ [][C11_Step]_vars

\* An unknown operation was answered by a loaded Counter holding a nonzero
\* value.
C11_Witness ==
    \E c \in Slots :
        /\ calls[c].op = "reset" /\ calls[c].st = "notfound"
        /\ value[idFromName(calls[c].name)] # <<>>
        /\ value[idFromName(calls[c].name)] = stored[idFromName(calls[c].name)]
        /\ ThisValue(idFromName(calls[c].name)) > 0

\* The calls of object i that sit between their read-modify step and the
\* completion of their storage.put.
InFlight(i) ==
    {c \in Slots : calls[c].st = "writing" /\ idFromName(calls[c].name) = i}

\* C12 as stated: per Counter at most one increment/decrement is in flight;
\* a second one does not perform its read-modify step while an earlier
\* one's storage write is pending.
C12_OneInFlight == \A i \in ObjIds : Cardinality(InFlight(i)) <= 1

\* The change one operation name makes to the value.
C12_Delta(op) == IF op = "increment" THEN 1 ELSE IF op = "decrement" THEN -1 ELSE 0

C12_State ==
    \A i \in ObjIds :
        /\ Cardinality(InFlight(i)) = Len(writes[i])
        /\ \A k \in 1..Len(writes[i]) :
              LET w == writes[i][k]
              IN  /\ w.call \in InFlight(i)
                  /\ calls[w.call].cur = w.v
                  /\ k > 1 => w.v = writes[i][k-1].v + C12_Delta(calls[w.call].op)
                  /\ k = Len(writes[i]) => value[i] = <<w.v>>

C12_Step ==
    \A i \in ObjIds :
        /\ Len(writes'[i]) > Len(writes[i]) =>
              \E c \in Slots :
                  /\ calls[c].st = "sent" /\ calls'[c].st = "writing"
                  /\ value[i] # <<>>
                  /\ value'[i] = <<value[i][1] + C12_Delta(calls[c].op)>>
                  /\ C12_Delta(calls[c].op) # 0
                  /\ writes'[i] = Append(writes[i], [call |-> c, v |-> value'[i][1]])
        /\ stored'[i] # stored[i] =>
              /\ writes[i] # <<>>
              /\ stored'[i] = <<Head(writes[i]).v>>
              /\ writes'[i] = Tail(writes[i])
              /\ calls'[Head(writes[i]).call].st = "done"

\* C12 (amended): the read-modify step of an increment/decrement is one
\* atomic step on the in-memory value, the steps of one Counter are totally
\* ordered, every in-flight call has exactly one pending write carrying the
\* value its own step produced, each pending write differs from the one
\* before it by that call's own +1 or -1, and the writes are persisted in
\* the order of the steps.  A later call may perform its step while earlier
\* writes are still pending.
C12_AtomicStepsOrderedWrites == []C12_State /\ [][C12_Step]_vars

\* Two calls on one Counter are in flight at once: the second performed its
\* read-modify step while the first one's write was pending.
C12_Witness ==
    \E i \in ObjIds :
        /\ Len(writes[i]) = 2
        /\ writes[i][1].call # writes[i][2].call
        /\ calls[writes[i][1].call].st = "writing"
        /\ calls[writes[i][2].call].st = "writing"

\* C13: the value of every Counter, in memory and persisted, is a
\* non-negative integer in every reachable state (the persisted values start
\* absent or non-negative).
C13_NonNegative ==
    \A i \in ObjIds :
        /\ value[i] # <<>> => value[i][1] >= 0
        /\ stored[i] # <<>> => stored[i][1] >= 0

\* The states of a call that Counter.fetch has started to process.
Delivered == {"writing", "done", "notfound"}

C14_State ==
    \A c \in Slots :
        LET i == idFromName(calls[c].name)
        IN  (calls[c].st \in Delivered /\ calls[c].gen = gen[i]) => obj[i] # "init"

C14_Step ==
    \A c \in Slots :
        LET i == idFromName(calls[c].name)
        IN  (calls[c].st = "sent" /\ calls'[c].st \in Delivered) =>
                /\ obj[i] = "ready"
                /\ value[i] # <<>>
                /\ calls[c].op = "value" =>
                      calls'[c].ret = ToString(value[i][1])
                /\ calls[c].op \in {"increment", "decrement"} =>
                      calls'[c].cur = value[i][1] + C12_Delta(calls[c].op)

\* C14: no Counter operation observes a pre-initialization value: a request
\* is processed only when the constructor's load has completed, so the value
\* it reads is the loaded one (or a later one), also when the request arrived
\* while the load was pending.
C14_NoPreInitValue == []C14_State /\ [][C14_Step]_vars

\* The first request of the instance of "variant-action", which arrived
\* before the load completed, read the persisted value 1.
C14_Witness ==
    \E c \in Slots :
        /\ calls[c].name = "variant-action" /\ calls[c].op = "value"
        /\ calls[c].st = "done" /\ calls[c].ret = "1"
        /\ calls[c].gen = 1 /\ gen[4] = 1 /\ loaded[4] = 1
        /\ \A d \in Slots : d # c => calls[d].name # "variant-action"

(***************************************************************************)
(* Further properties of the Worker, checked under Spec.                   *)
(***************************************************************************)

\* An action request of slot r that carried no assignment cookie.
UnassignedAction(q) == q.path = "/abtest/action" /\ CookieGroup(q) = ""

C15_State ==
    \A r \in Slots :
        (req[r].pc # "idle" /\ UnassignedAction(req[r])) =>
            /\ req[r].pc = "done" /\ req[r].status = "redirect"
            /\ ~req[r].setCounted
            /\ calls[r] = NoCall

C15_Step ==
    \A r \in Slots :
        (req[r].pc = "idle" /\ req'[r].pc # "idle" /\ UnassignedAction(req'[r])) =>
            /\ value' = value /\ stored' = stored /\ writes' = writes
            /\ calls' = calls /\ jar' = jar

\* C15: an action request of a visitor with no assignment cookie, with or
\* without other cookies, makes no counter call and changes none of the four
\* counters, sets no dedup cookie and is answered with the redirect.
C15_UnassignedActionNoEffect == []C15_State /\ [][C15_Step]_vars

\* An unassigned visitor who sends another cookie got the redirect of the
\* action path.
C15_Witness ==
    \E r \in Slots :
        /\ UnassignedAction(req[r]) /\ req[r].pc = "done"
        /\ req[r].cookie.present /\ "theme=dark" \in req[r].cookie.pairs
        /\ "cloudflare_ab_test_counted=true" \notin req[r].cookie.pairs

\* C16: a response carries the dedup cookie only if its request is an action
\* request whose single counter call was an increment of the action counter
\* of the visitor's own group, and that increment was persisted before the
\* response was built.
C16_DedupOnlyAfterPersistedIncrement ==
    \A r \in Slots :
        req[r].setCounted =>
            LET g == CookieGroup(req[r])
                i == idFromName(ActionName(g))
            IN  /\ req[r].path = "/abtest/action" /\ req[r].status = "redirect"
                /\ g # ""
                /\ calls[r].name = ActionName(g) /\ calls[r].op = "increment"
                /\ calls[r].st = "done" /\ Stepped(r)
                /\ calls[r].cur >= 1
                /\ stored[i] # <<>> /\ stored[i][1] >= calls[r].cur

\* A control visitor's action response carried the dedup cookie.
C16_Witness ==
    \E r \in Slots :
        /\ req[r].setCounted /\ req[r].pc = "done"
        /\ CookieGroup(req[r]) = "control"
        /\ stored[idFromName("control-action")] = <<calls[r].cur>>
        /\ "cloudflare_ab_test_counted=true" \in jar[req[r].visitor]

\* C17: a visitor's group is immutable once assigned: a request that carried
\* an assignment cookie is never answered with an assignment cookie of
\* another group, and a group that a response assigned to the visitor is
\* still the group the visitor holds (no later response replaced it).
C17_GroupImmutable ==
    \A r \in Slots :
        /\ (CookieGroup(req[r]) # "" /\ req[r].setGroup # "") =>
              req[r].setGroup = CookieGroup(req[r])
        /\ (req[r].pc = "done" /\ req[r].setGroup # "") =>
              ("cloudflare_ab_test=" \o req[r].setGroup) \in jar[req[r].visitor]

\* The /abtest requests of visitor v whose show-counter increment was
\* performed and persisted.
ShowCounted(v) ==
    {r \in Slots : /\ req[r].visitor = v /\ req[r].path = "/abtest"
                   /\ calls[r].name \in {"control-show", "variant-show"}
                   /\ calls[r].op = "increment" /\ calls[r].st = "done"}

\* C18: page visits are not double counted: under any interleaving of one
\* visitor's /abtest requests, at most one show-counter increment, over both
\* groups, is due to that visitor.
C18_ShowCountedAtMostOnce == \A v \in Visitors : Cardinality(ShowCounted(v)) <= 1

\* C19: whenever no increment or decrement is in flight on a loaded Counter,
\* its in-memory value equals its persisted value (absent counted as 0), also
\* after a storage write has failed.
C19_MemoryEqualsPersisted ==
    \A i \in ObjIds :
        (obj[i] = "ready" /\ InFlight(i) = {}) => value[i] = <<Persisted(i)>>

(***************************************************************************)
(* The Worker with visitors who start without cookies and counters that    *)
(* were never written.                                                     *)
(***************************************************************************)
InitFresh ==
    /\ InitIdle
    /\ stored = FreshStored
    /\ jar = [v \in Visitors |-> {}]

SpecFresh == InitFresh /\ [][Next]_vars

\* The counter of a name as the result page reports it: the in-memory value
\* of a loaded Counter, else what a load would read.
CounterValue(name) ==
    LET i == idFromName(name)
    IN  IF value[i] # <<>> THEN value[i][1] ELSE Persisted(i)

\* C20: for each group the action counter never exceeds the show counter,
\* when all visitors start without cookies and send only cookies the service
\* issued to them.
C20_ActionAtMostShow ==
    /\ CounterValue("control-action") <= CounterValue("control-show")
    /\ CounterValue("variant-action") <= CounterValue("variant-show")

====
